---- MODULE Spec2Model ----
(***************************************************************************)
(* The streaming-session client of the agent UI (App.jsx, ChatInterface.jsx *)
(* and ControlPanel): the SSE read loop of runAgent / runBatchAgent, the    *)
(* event dispatcher handleEvent, the five human-in-the-loop prompt slots,   *)
(* the inline prompt components and the five resume handlers.               *)
(*                                                                          *)
(* Text is a sequence of characters.  A JSON document is written with three *)
(* characters "{", a key naming the document, "}" so that a read boundary   *)
(* can fall inside a document; Documents maps each key to its value.        *)
(* Log entries carry no timestamp (new Date() is not modelled).             *)
(***************************************************************************)
EXTENDS Integers, Sequences, FiniteSets, TLC

\* ------------------------------------------------------------------ bounds
\* frames the remote executor sends over all runs, with operator answers
MaxFrames == 2
\* frames the remote executor sends over all runs, without operator answers
MaxDecodeFrames == 3
\* resume requests the operator sends
MaxSubmits == 2

\* ------------------------------------------------------------------ text
NL == "\n"
Marker == <<"d", "a", "t", "a", ":", " ">>
MarkerLen == 6
Delimiter == <<NL, NL>>
Whitespace == {" ", NL}

StartsWith(s, p) == Len(s) >= Len(p) /\ SubSeq(s, 1, Len(p)) = p

Slice(s, n) == SubSeq(s, n + 1, Len(s))

\* index of the first "\n\n" in s, 0 when there is none
DelimiterAt(s) ==
  LET hits == {i \in 1..(Len(s) - 1) : s[i] = NL /\ s[i + 1] = NL}
  IN IF hits = {} THEN 0 ELSE CHOOSE i \in hits : \A j \in hits : i <= j

RECURSIVE Split(_)
\* String.prototype.split('\n\n')
Split(s) ==
  LET i == DelimiterAt(s)
  IN IF i = 0 THEN <<s>>
     ELSE <<SubSeq(s, 1, i - 1)>> \o Split(SubSeq(s, i + 2, Len(s)))

RECURSIVE TrimLeft(_)
TrimLeft(s) ==
  IF s # <<>> /\ s[1] \in Whitespace THEN TrimLeft(Tail(s)) ELSE s

RECURSIVE TrimRight(_)
TrimRight(s) ==
  IF s # <<>> /\ s[Len(s)] \in Whitespace
  THEN TrimRight(SubSeq(s, 1, Len(s) - 1)) ELSE s

\* String.prototype.trim
Trim(s) == TrimRight(TrimLeft(s))

\* ------------------------------------------------------------------ events
Undefined == "undefined"

Ev(t, c, sid) == [json |-> "object", type |-> t, content |-> c, session_id |-> sid]

\* an event object that has no content property
Bare(t, sid) == [json |-> "object", type |-> t, session_id |-> sid]

JsNull == [key |-> "null", json |-> "null", type |-> Undefined, content |-> Undefined, session_id |-> Undefined]

Item(i, s) == [index |-> i, product_url |-> "u", quantity |-> 1, status |-> s]

\* item i of a batch order as the remote executor reports it: what was ordered, and
\* how far the order has got
BatchItem(i, s) ==
  [index |-> i, product_url |-> IF i = 0 THEN "u0" ELSE "u1", quantity |-> i + 1,
   color |-> IF i = 0 THEN "red" ELSE "blue", status |-> s,
   message |-> IF s = "success" THEN "ordered" ELSE Undefined,
   error |-> IF s = "failed" THEN "out of stock" ELSE Undefined]

DocumentKeys ==
  {"log_a", "log_b", "input_1", "input_2", "products_1", "products_2",
   "addresses_1", "addresses_2", "payments_1", "payments_2",
   "options_1", "options_2", "status_1", "status_2", "status_3", "status_4",
   "config", "batch_start", "batch_complete", "result_json", "result_raw",
   "error", "card", "other", "scalar",
   "a_pp", "a_ip", "a_sp", "a_sf", "b_p", "b_s",
   "config_bare", "batch_complete_bare", "products_bare"}

\* the value of the JSON document written with key k
DocumentValue(k) ==
    CASE k = "log_a" -> Ev("log", "a", Undefined)
      [] k = "log_b" -> Ev("log", "b", Undefined)
      [] k = "input_1" -> Ev("request_input", "q1", "s1")
      [] k = "input_2" -> Ev("request_input", "q2", "s2")
      [] k = "products_1" ->
           Ev("product_choices",
              [message |-> "pm1",
               products |-> <<[product_name |-> "P1"], [product_name |-> "P2"]>>], "s1")
      [] k = "products_2" ->
           Ev("product_choices",
              [message |-> "pm2", products |-> <<[product_name |-> "P3"]>>], "s2")
      [] k = "addresses_1" ->
           Ev("address_choices",
              [message |-> "am1",
               addresses |-> <<[name |-> "A1", address |-> "x1"]>>], "s1")
      [] k = "addresses_2" ->
           Ev("address_choices",
              [message |-> "am2",
               addresses |-> <<[name |-> "A2", address |-> "x2"],
                               [name |-> "A3", address |-> "x3"]>>], "s2")
      [] k = "payments_1" ->
           Ev("payment_choices",
              [message |-> "ym1", payments |-> <<[method |-> "card"]>>], "s1")
      [] k = "payments_2" ->
           Ev("payment_choices",
              [message |-> "ym2",
               payments |-> <<[method |-> "upi"], [method |-> "cod"]>>], "s2")
      [] k = "options_1" ->
           Ev("options",
              [message |-> "om1", options |-> <<[label |-> "yes"], [label |-> "no"]>>,
               option_type |-> Undefined], "s1")
      [] k = "options_2" ->
           Ev("options",
              [message |-> "om2", options |-> <<[label |-> "go"]>>,
               option_type |-> "warning"], "s2")
      [] k = "config" ->
           Ev("config", [platform |-> "amazon", action |-> "search", temperature |-> "0"],
              Undefined)
      [] k = "config_bare" -> Bare("config", Undefined)
      [] k = "batch_complete_bare" -> Bare("batch_complete", Undefined)
      [] k = "products_bare" -> Bare("product_choices", "s1")
      [] k = "batch_start" ->
           Ev("batch_start", [total_items |-> "2", platform |-> "amazon"], Undefined)
      [] k = "batch_complete" ->
           Ev("batch_complete",
              [success |-> 3, failed |-> 1, total |-> 4, results |-> <<>>], Undefined)
      [] k = "result_json" -> Ev("result", <<"{", "card", "}">>, Undefined)
      [] k = "result_raw" -> Ev("result", <<"not json">>, Undefined)
      [] k = "error" -> Ev("error", "boom", Undefined)
      [] k = "card" ->
           [json |-> "object", type |-> Undefined, content |-> Undefined,
            session_id |-> Undefined, product_name |-> "X", price |-> "$9"]
      [] k = "other" -> Ev("heartbeat", "x", Undefined)
      [] k = "scalar" ->
           [json |-> "number", type |-> Undefined, content |-> Undefined,
            session_id |-> Undefined]
      [] k = "status_1" -> Ev("batch_status", <<Item(0, "pending")>>, Undefined)
      [] k = "status_2" ->
           Ev("batch_status", <<Item(0, "success"), Item(1, "pending")>>, Undefined)
      [] k = "status_3" ->
           Ev("batch_status",
              <<Item(0, "failed"), Item(1, "in_progress"), Item(2, "success")>>, Undefined)
      [] k = "a_pp" ->
           Ev("batch_status", <<BatchItem(0, "pending"), BatchItem(1, "pending")>>, Undefined)
      [] k = "a_ip" ->
           Ev("batch_status", <<BatchItem(0, "in_progress"), BatchItem(1, "pending")>>,
              Undefined)
      [] k = "a_sp" ->
           Ev("batch_status", <<BatchItem(0, "success"), BatchItem(1, "pending")>>, Undefined)
      [] k = "a_sf" ->
           Ev("batch_status", <<BatchItem(0, "success"), BatchItem(1, "failed")>>, Undefined)
      [] k = "b_p" -> Ev("batch_status", <<BatchItem(0, "pending")>>, Undefined)
      [] k = "b_s" -> Ev("batch_status", <<BatchItem(0, "success")>>, Undefined)
      [] k = "status_4" ->
           Ev("batch_status", <<Item(0, "cancelled"), Item(1, "pending")>>, Undefined)

\* the JSON documents of the model, by key; key names the document in histories
Documents == [k \in DocumentKeys |-> [key |-> k] @@ DocumentValue(k)]

Keys == DOMAIN Documents

\* JSON.parse: ok with the value, or not ok (a SyntaxError is thrown)
JSONParse(text) ==
  LET t == Trim(text)
  IN IF Len(t) = 3 /\ t[1] = "{" /\ t[3] = "}" /\ t[2] \in Keys
     THEN [ok |-> TRUE, value |-> Documents[t[2]]]
     ELSE IF t = <<"null">>
     THEN [ok |-> TRUE, value |-> JsNull]
     ELSE IF t = <<"5">>
     THEN [ok |-> TRUE, value |-> Documents["scalar"]]
     ELSE [ok |-> FALSE, value |-> JsNull]

\* JSON.stringify of the document with key k
JSONText(k) == <<"{", k, "}">>

\* ------------------------------------------------------------------ state
VARIABLES
  outlived,        \* history: the requests sent before the current run started that
                   \* still await their response
  mounted,         \* the App component is mounted: its state exists and is rendered
  logs,            \* useState([]): the Timeline
  isRunning,       \* useState(false)
  batchStatus,     \* useState([])
  hitlData,        \* the free-text prompt
  productChoices,  \* the product prompt
  addressChoices,  \* the address prompt
  paymentChoices,  \* the payment prompt
  generalOptions,  \* the generic-options prompt
  selectedIndex,   \* useState(null) of each mounted Inline*Choices component
  pc,              \* the run: "idle", "fetching" (awaiting fetch), "reading" (in the
                   \* read loop), "completed" or "failed" (the async function returned)
  wire,            \* text of the response body not yet returned by reader.read()
  inflight,        \* resume requests awaiting their response
  framesSent,      \* number of frames the remote executor has sent so far
  submits,         \* number of resume requests sent so far
  sent,            \* history: the frames of the current response body
  dispatched,      \* history: the events passed to handleEvent in this run
  aligned,         \* history: every read of this run ended on a frame boundary
  diagnostics,     \* number of console.error("Error parsing SSE:") calls of this run
  lastResume,      \* history: family and success of the resume response handled last
  activeLoops      \* number of runAgent / runBatchAgent calls that have not returned

vars == <<logs, isRunning, batchStatus, hitlData, productChoices, addressChoices,
          paymentChoices, generalOptions, selectedIndex, pc, wire, inflight, framesSent,
          submits,
          sent, dispatched, aligned, diagnostics, lastResume, activeLoops, mounted, outlived>>

ChoiceFamilies == {"product", "address", "payment", "options"}
Families == {"hitl"} \cup ChoiceFamilies

NoSelection == -1

Entry(t, c) == [type |-> t, content |-> c]

\* error.message in a catch block; its text is left symbolic
ErrorMessage == "${error.message}"

\* setLogs(prev => [entry, ...prev]): the entry put first
AppendLogFront(prev, entry) == <<entry>> \o prev

\* setLogs([...logs, entry]) with the logs of the handler's closure, empty since the
\* run start
AppendLogStale(prev, entry) == <<entry>>

\* setLogs(prev => [...prev, entry])
AppendLog(prev, entry) == Append(prev, entry)

\* the React state a handler works on
View == [logs |-> logs, batchStatus |-> batchStatus, hitlData |-> hitlData,
         productChoices |-> productChoices, addressChoices |-> addressChoices,
         paymentChoices |-> paymentChoices, generalOptions |-> generalOptions]

\* the branches of handleEvent, each the state after its setState calls on st

OnConfig(st, event) ==
  [st EXCEPT !.logs = AppendLog(@, Entry("text",
     <<"Agent started: ", event.content.platform, "/", event.content.action,
       " (temperature: ", event.content.temperature, ")">>))]

OnBatchStart(st, event) ==
  [st EXCEPT !.logs = AppendLog(@, Entry("batch-start",
     <<"Batch order started: ", event.content.total_items, " items on ",
       event.content.platform>>))]

\* setBatchStatus(prev => [...prev, ...event.content]): the snapshot merged into the
\* items already held
OnBatchStatusMerge(st, event) == [st EXCEPT !.batchStatus = @ \o event.content]

\* a tracker that keeps only the items that are not done
OnBatchStatusActiveOnly(st, event) ==
  [st EXCEPT !.batchStatus = SelectSeq(event.content, LAMBDA item : item.status # "success")]

OnBatchStatus(st, event) == [st EXCEPT !.batchStatus = event.content]

\* a template that prints the counts in the wrong places
OnBatchCompleteSwapped(st, event) ==
  [st EXCEPT !.logs = AppendLog(@, Entry("batch-complete",
     <<"Batch completed: ", ToString(event.content.failed), "/",
       ToString(event.content.total), " succeeded, ",
       ToString(event.content.success), " failed">>))]

OnBatchComplete(st, event) ==
  [st EXCEPT !.logs = AppendLog(@, Entry("batch-complete",
     <<"Batch completed: ", ToString(event.content.success), "/",
       ToString(event.content.total), " succeeded, ",
       ToString(event.content.failed), " failed">>))]

OnLog(st, event) == [st EXCEPT !.logs = AppendLog(@, Entry("text", <<event.content>>))]

\* request_input that keeps a prompt that is already open
OnRequestInputKeepFirst(st, event) ==
  IF st.hitlData.isOpen THEN st
  ELSE [st EXCEPT !.hitlData =
          [isOpen |-> TRUE, question |-> event.content, sessionId |-> event.session_id]]

OnRequestInput(st, event) ==
  [st EXCEPT !.hitlData =
     [isOpen |-> TRUE, question |-> event.content, sessionId |-> event.session_id]]

OnProductChoices(st, event) ==
  [st EXCEPT
     !.productChoices =
       [isOpen |-> TRUE, message |-> event.content.message,
        products |-> event.content.products, sessionId |-> event.session_id],
     !.logs = AppendLog(@, Entry("text",
       <<"Found ", ToString(Len(event.content.products)),
         " products. Please select one...">>))]

OnAddressChoices(st, event) ==
  [st EXCEPT
     !.addressChoices =
       [isOpen |-> TRUE, message |-> event.content.message,
        addresses |-> event.content.addresses, sessionId |-> event.session_id],
     !.logs = AppendLog(@, Entry("text",
       <<"Found ", ToString(Len(event.content.addresses)),
         " delivery addresses. Please select one...">>))]

\* a payment branch that opens the prompt without the informational entry
OnPaymentChoicesSilent(st, event) ==
  [st EXCEPT
     !.paymentChoices =
       [isOpen |-> TRUE, message |-> event.content.message,
        payments |-> event.content.payments, sessionId |-> event.session_id]]

OnPaymentChoices(st, event) ==
  [st EXCEPT
     !.paymentChoices =
       [isOpen |-> TRUE, message |-> event.content.message,
        payments |-> event.content.payments, sessionId |-> event.session_id],
     !.logs = AppendLog(@, Entry("text",
       <<"Available payment methods. Please select one...">>))]

OnOptions(st, event) ==
  [st EXCEPT
     !.generalOptions =
       [isOpen |-> TRUE, message |-> event.content.message,
        options |-> event.content.options,
        optionType |-> IF event.content.option_type = Undefined
                       THEN "general" ELSE event.content.option_type,
        sessionId |-> event.session_id],
     !.logs = AppendLog(@, Entry("text", <<event.content.message>>))]

\* a result branch without the inner try: content that is not JSON is reported as
\* an error
OnResultStrict(st, event) ==
  LET parsed == JSONParse(event.content)
  IN IF parsed.ok
     THEN [st EXCEPT !.logs = AppendLog(@, Entry("result-json",
             <<"product_name: ", parsed.value.product_name,
               ", price: ", parsed.value.price>>))]
     ELSE [st EXCEPT !.logs = AppendLog(@, Entry("error", <<ErrorMessage>>))]

OnResult(st, event) ==
  LET parsed == JSONParse(event.content)
  IN IF parsed.ok
     THEN [st EXCEPT !.logs = AppendLog(@, Entry("result-json",
             <<"product_name: ", parsed.value.product_name,
               ", price: ", parsed.value.price>>))]
     ELSE [st EXCEPT !.logs = AppendLog(@, Entry("success",
             <<"**Result:** ">> \o event.content))]

OnError(st, event) ==
  [st EXCEPT !.logs = AppendLog(@, Entry("error", <<"**Error:** ", event.content>>))]

\* the closed enumeration of event types handleEvent has a branch for
KnownTypes ==
  {"config", "batch_start", "batch_status", "batch_complete", "log", "request_input",
   "product_choices", "address_choices", "payment_choices", "options", "result", "error"}

\* the event is an object without a content property
MissingContent(event) == event.json = "object" /\ "content" \notin DOMAIN event

\* the types whose branch reads a property of event.content while handleEvent runs:
\* without a content the branch throws a TypeError before its first setState
ReadInHandler == {"product_choices", "address_choices", "payment_choices", "options"}

\* the types whose branch reads a property of event.content only inside the updater
\* it hands to setLogs: without a content the updater throws when React renders
ReadInUpdater == {"config", "batch_start", "batch_complete"}

\* handleEvent throws on this event, into the catch of the loop body
Throws(event) == MissingContent(event) /\ event.type \in ReadInHandler

\* handleEvent queues for this event an updater that throws when React renders
RenderThrows(event) == MissingContent(event) /\ event.type \in ReadInUpdater

\* a dispatcher with a final else that reports an event it has no branch for
HandleEventStrict(st, event) ==
  [threw |-> FALSE,
   crashed |-> FALSE,
   st |-> IF event.json = "object" /\ event.type \in KnownTypes
          THEN CASE event.type = "config" -> OnConfig(st, event)
                 [] event.type = "batch_start" -> OnBatchStart(st, event)
                 [] event.type = "batch_status" -> OnBatchStatus(st, event)
                 [] event.type = "batch_complete" -> OnBatchComplete(st, event)
                 [] event.type = "log" -> OnLog(st, event)
                 [] event.type = "request_input" -> OnRequestInput(st, event)
                 [] event.type = "product_choices" -> OnProductChoices(st, event)
                 [] event.type = "address_choices" -> OnAddressChoices(st, event)
                 [] event.type = "payment_choices" -> OnPaymentChoices(st, event)
                 [] event.type = "options" -> OnOptions(st, event)
                 [] event.type = "result" -> OnResult(st, event)
                 [] event.type = "error" -> OnError(st, event)
          ELSE [st EXCEPT !.logs = AppendLog(@, Entry("error", <<"Unknown event">>))]]

\* handleEvent: the state after dispatching event to state st, whether it threw, and
\* whether it queued an updater that throws when React renders
HandleEvent(st, event) ==
  [threw |-> Throws(event),
   crashed |-> RenderThrows(event),
   st |-> IF event.json = "null" \/ MissingContent(event) THEN st
          ELSE CASE event.type = "config" -> OnConfig(st, event)
                 [] event.type = "batch_start" -> OnBatchStart(st, event)
                 [] event.type = "batch_status" -> OnBatchStatus(st, event)
                 [] event.type = "batch_complete" -> OnBatchComplete(st, event)
                 [] event.type = "log" -> OnLog(st, event)
                 [] event.type = "request_input" -> OnRequestInput(st, event)
                 [] event.type = "product_choices" -> OnProductChoices(st, event)
                 [] event.type = "address_choices" -> OnAddressChoices(st, event)
                 [] event.type = "payment_choices" -> OnPaymentChoices(st, event)
                 [] event.type = "options" -> OnOptions(st, event)
                 [] event.type = "result" -> OnResult(st, event)
                 [] event.type = "error" -> OnError(st, event)
                 [] OTHER -> st]

\* ------------------------------------------------------------------ decoder
\* the loop body with the try around the whole for loop: the first parse failure of
\* a chunk ends the chunk
ProcessLineAborting(acc, line) ==
  IF acc.parseErrors > 0 THEN acc
  ELSE IF StartsWith(line, Marker)
  THEN LET jsonStr == Slice(line, MarkerLen)
       IN IF jsonStr = <<>> THEN acc
          ELSE LET parsed == JSONParse(jsonStr)
               IN IF ~parsed.ok
                  THEN [acc EXCEPT !.parseErrors = @ + 1]
                  ELSE [acc EXCEPT
                          !.st = HandleEvent(@, parsed.value).st,
                          !.events = Append(@, parsed.value.key),
                          !.parseErrors = @ + (IF Throws(parsed.value) THEN 1 ELSE 0),
                          !.crashed = @ \/ RenderThrows(parsed.value)]
  ELSE acc

\* the loop body with a catch that also reports the parse failure in the Timeline
ProcessLineSurfacing(acc, line) ==
  IF StartsWith(line, Marker)
  THEN LET jsonStr == Slice(line, MarkerLen)
       IN IF jsonStr = <<>> THEN acc
          ELSE LET parsed == JSONParse(jsonStr)
               IN IF ~parsed.ok
                  THEN [acc EXCEPT !.parseErrors = @ + 1,
                                   !.st.logs = AppendLog(@, Entry("error", <<ErrorMessage>>))]
                  ELSE [acc EXCEPT
                          !.st = HandleEvent(@, parsed.value).st,
                          !.events = Append(@, parsed.value.key),
                          !.parseErrors = @ + (IF Throws(parsed.value) THEN 1 ELSE 0),
                          !.crashed = @ \/ RenderThrows(parsed.value)]
  ELSE acc

\* a loop body that sets events aside while a prompt awaits the operator
ProcessLinePausing(acc, line) ==
  IF \/ acc.st.hitlData.isOpen
     \/ acc.st.productChoices.isOpen
     \/ acc.st.addressChoices.isOpen
     \/ acc.st.paymentChoices.isOpen
     \/ acc.st.generalOptions.isOpen
  THEN acc
  ELSE IF StartsWith(line, Marker)
  THEN LET jsonStr == Slice(line, MarkerLen)
       IN IF jsonStr = <<>> THEN acc
          ELSE LET parsed == JSONParse(jsonStr)
               IN IF ~parsed.ok
                  THEN [acc EXCEPT !.parseErrors = @ + 1]
                  ELSE [acc EXCEPT
                          !.st = HandleEvent(@, parsed.value).st,
                          !.events = Append(@, parsed.value.key),
                          !.parseErrors = @ + (IF Throws(parsed.value) THEN 1 ELSE 0),
                          !.crashed = @ \/ RenderThrows(parsed.value)]
  ELSE acc

\* one iteration of `for (const line of lines)`: acc is the state so far, the
\* events handed to handleEvent, the number of console.error calls and whether an
\* updater that throws was queued
ProcessLine(acc, line) ==
  IF StartsWith(line, Marker)
  THEN LET jsonStr == Slice(line, MarkerLen)
       IN IF jsonStr = <<>> THEN acc
          ELSE LET parsed == JSONParse(jsonStr)
               IN IF ~parsed.ok
                  THEN [acc EXCEPT !.parseErrors = @ + 1]
                  ELSE [acc EXCEPT
                          !.st = HandleEvent(@, parsed.value).st,
                          !.events = Append(@, parsed.value.key),
                          !.parseErrors = @ + (IF Throws(parsed.value) THEN 1 ELSE 0),
                          !.crashed = @ \/ RenderThrows(parsed.value)]
  ELSE acc

\* the loop with `break` for `continue`: an empty body ends the chunk
RECURSIVE ProcessLinesBreaking(_, _)
ProcessLinesBreaking(acc, lines) ==
  IF lines = <<>> \/ Head(lines) = Marker THEN acc
  ELSE ProcessLinesBreaking(ProcessLine(acc, Head(lines)), Tail(lines))

RECURSIVE ProcessLines(_, _)
ProcessLines(acc, lines) ==
  IF lines = <<>> THEN acc
  ELSE ProcessLines(ProcessLine(acc, Head(lines)), Tail(lines))

\* the body of the read loop for one chunk
ProcessChunk(st, chunk) ==
  CHOOSE out \in {ProcessLines([st |-> st, events |-> <<>>, parseErrors |-> 0,
                                crashed |-> FALSE], lines) :
                    lines \in {Split(chunk)}} : TRUE

\* ------------------------------------------------------------------ the remote executor's stream
Frame(k) == [marker |-> TRUE, body |-> JSONText(k)]
BareFrame(k) == [marker |-> FALSE, body |-> JSONText(k)]
MalformedFrame == [marker |-> TRUE, body |-> <<"not-json">>]
KeepAlive == [marker |-> TRUE, body |-> <<>>]
NullFrame == [marker |-> TRUE, body |-> <<"null">>]
ScalarFrame == [marker |-> TRUE, body |-> <<"5">>]

EncodeFrame(f) == (IF f.marker THEN Marker ELSE <<>>) \o f.body \o Delimiter

RECURSIVE EncodeStream(_)
EncodeStream(frames) ==
  IF frames = <<>> THEN <<>>
  ELSE EncodeFrame(Head(frames)) \o EncodeStream(Tail(frames))

\* every stream of at most n frames of the given kinds
Streams(kinds, n) == UNION {[1..m -> kinds] : m \in 0..n}

AtFrameBoundary(rest) ==
  \E i \in 0..Len(sent) : rest = EncodeStream(SubSeq(sent, i + 1, Len(sent)))

\* the read sizes that end on a frame boundary
FrameCuts == {n \in 1..Len(wire) : AtFrameBoundary(Slice(wire, n))}

\* every read size
AnyCut == 1..Len(wire)

\* ------------------------------------------------------------------ runs
Init ==
  /\ logs = <<>>
  /\ isRunning = FALSE
  /\ batchStatus = <<>>
  /\ hitlData = [isOpen |-> FALSE, question |-> "", sessionId |-> ""]
  /\ productChoices = [isOpen |-> FALSE, message |-> "", products |-> <<>>, sessionId |-> ""]
  /\ addressChoices = [isOpen |-> FALSE, message |-> "", addresses |-> <<>>, sessionId |-> ""]
  /\ paymentChoices = [isOpen |-> FALSE, message |-> "", payments |-> <<>>, sessionId |-> ""]
  /\ generalOptions = [isOpen |-> FALSE, message |-> "", options |-> <<>>,
                       optionType |-> "general", sessionId |-> ""]
  /\ selectedIndex = [f \in ChoiceFamilies |-> NoSelection]
  /\ pc = "idle"
  /\ wire = <<>>
  /\ inflight = {}
  /\ framesSent = 0
  /\ submits = 0
  /\ sent = <<>>
  /\ dispatched = <<>>
  /\ aligned = TRUE
  /\ diagnostics = 0
  /\ lastResume = [family |-> "-", ok |-> FALSE]
  /\ activeLoops = 0
  /\ mounted = TRUE
  /\ outlived = {}

Prompts == <<hitlData, productChoices, addressChoices, paymentChoices, generalOptions>>

\* runAgent behind a run button that stays enabled while isRunning
RunAgentUnguarded ==
  /\ mounted
  /\ isRunning' = TRUE
  /\ logs' = <<>>
  /\ pc' = "fetching"
  /\ wire' = <<>>
  /\ sent' = <<>>
  /\ dispatched' = <<>>
  /\ aligned' = TRUE
  /\ diagnostics' = 0
  /\ activeLoops' = activeLoops + 1
  /\ outlived' = inflight
  /\ UNCHANGED <<mounted, inflight, lastResume, batchStatus, Prompts, selectedIndex, framesSent, submits>>

\* runAgent up to its first await; the run button is disabled while isRunning
RunAgent ==
  /\ mounted
  /\ ~isRunning
  /\ isRunning' = TRUE
  /\ logs' = <<>>
  /\ pc' = "fetching"
  /\ wire' = <<>>
  /\ sent' = <<>>
  /\ dispatched' = <<>>
  /\ aligned' = TRUE
  /\ diagnostics' = 0
  /\ activeLoops' = activeLoops + 1
  /\ outlived' = inflight
  /\ UNCHANGED <<mounted, inflight, lastResume, batchStatus, Prompts, selectedIndex, framesSent, submits>>

\* runBatchAgent up to its first await
RunBatchAgent ==
  /\ mounted
  /\ ~isRunning
  /\ isRunning' = TRUE
  /\ logs' = <<>>
  /\ batchStatus' = <<>>
  /\ pc' = "fetching"
  /\ wire' = <<>>
  /\ sent' = <<>>
  /\ dispatched' = <<>>
  /\ aligned' = TRUE
  /\ diagnostics' = 0
  /\ activeLoops' = activeLoops + 1
  /\ outlived' = inflight
  /\ UNCHANGED <<mounted, inflight, lastResume, Prompts, selectedIndex, framesSent, submits>>

\* fetch resolves with a response whose body will carry frames
FetchResponse(frames, budget) ==
  /\ pc = "fetching"
  /\ framesSent + Len(frames) <= budget
  /\ framesSent' = framesSent + Len(frames)
  /\ pc' = "reading"
  /\ wire' = EncodeStream(frames)
  /\ sent' = frames
  /\ UNCHANGED <<outlived, mounted, activeLoops, diagnostics, lastResume, logs, isRunning, batchStatus, Prompts, selectedIndex, inflight, submits,
                 dispatched, aligned>>

\* the body of a response that refuses the start request: a JSON object on its own,
\* with no marker and no line-break
Rejection == [marker |-> FALSE, body |-> <<"{", "detail", "}">>]

\* fetch resolves with a response whose status is not a success; runAgent does not
\* look at the status and goes on to read the body
FetchRejected ==
  /\ pc = "fetching"
  /\ pc' = "reading"
  /\ wire' = Rejection.body
  /\ sent' = <<Rejection>>
  /\ UNCHANGED <<outlived, mounted, activeLoops, diagnostics, lastResume, logs, isRunning, batchStatus, Prompts,
                 selectedIndex, inflight, submits, dispatched, aligned, framesSent>>

\* reader.read() resolves with the next n characters, which the loop body processes;
\* React then renders the queued updates. An updater that throws fails the render of
\* App: the component is unmounted with its state, and the setState calls made from
\* then on have no effect
Read(n) ==
  /\ pc = "reading"
  /\ n \in 1..Len(wire)
  /\ \E r \in {ProcessChunk(View, SubSeq(wire, 1, n))} :
     LET st == IF mounted /\ ~r.crashed THEN r.st ELSE View
     IN /\ mounted' = (mounted /\ ~r.crashed)
        /\ logs' = st.logs
        /\ batchStatus' = st.batchStatus
        /\ hitlData' = st.hitlData
        /\ productChoices' = st.productChoices
        /\ addressChoices' = st.addressChoices
        /\ paymentChoices' = st.paymentChoices
        /\ generalOptions' = st.generalOptions
        /\ dispatched' = dispatched \o r.events
        /\ diagnostics' = diagnostics + r.parseErrors
  /\ wire' = Slice(wire, n)
  /\ aligned' = (aligned /\ AtFrameBoundary(wire'))
  /\ UNCHANGED <<outlived, activeLoops, isRunning, selectedIndex, pc, inflight, framesSent, submits, sent,
                 lastResume>>

\* a finally block that also dismisses the free-text prompt
StreamEndClosing ==
  /\ pc = "reading"
  /\ wire = <<>>
  /\ isRunning' = FALSE
  /\ pc' = "completed"
  /\ activeLoops' = activeLoops - 1
  /\ hitlData' = [hitlData EXCEPT !.isOpen = FALSE]
  /\ UNCHANGED <<outlived, mounted, diagnostics, lastResume, logs, batchStatus, productChoices, addressChoices,
                 paymentChoices, generalOptions, selectedIndex, wire, inflight,
                 framesSent, submits, sent, dispatched, aligned>>

\* a loop whose exit does not reach setIsRunning(false)
StreamEndStuck ==
  /\ pc = "reading"
  /\ wire = <<>>
  /\ pc' = "completed"
  /\ activeLoops' = activeLoops - 1
  /\ UNCHANGED <<outlived, mounted, isRunning, diagnostics, lastResume, logs, batchStatus, Prompts, selectedIndex,
                 wire, inflight, framesSent, submits, sent, dispatched, aligned>>

\* reader.read() resolves with done: the loop breaks, finally runs
StreamEnd ==
  /\ pc = "reading"
  /\ wire = <<>>
  /\ isRunning' = (isRunning /\ ~mounted)
  /\ pc' = "completed"
  /\ activeLoops' = activeLoops - 1
  /\ UNCHANGED <<outlived, mounted, diagnostics, lastResume, logs, batchStatus, Prompts, selectedIndex, wire, inflight, framesSent,
                 submits, sent, dispatched, aligned>>

\* a catch block that only writes to the console
StreamCatchSilent(prev) == prev

\* the catch block of runAgent and runBatchAgent
StreamCatch(prev) == AppendLog(prev, Entry("error", <<"Connection error: ", ErrorMessage>>))

\* fetch or reader.read() rejects: catch, then finally
TransportError ==
  /\ pc \in {"fetching", "reading"}
  /\ logs' = IF mounted THEN StreamCatch(logs) ELSE logs
  /\ isRunning' = (isRunning /\ ~mounted)
  /\ pc' = "failed"
  /\ wire' = <<>>
  /\ activeLoops' = activeLoops - 1
  /\ UNCHANGED <<outlived, mounted, diagnostics, lastResume, batchStatus, Prompts, selectedIndex, inflight, framesSent, submits, sent,
                 dispatched, aligned>>

\* ------------------------------------------------------------------ prompts
Slot(f) ==
  CASE f = "hitl" -> hitlData
    [] f = "product" -> productChoices
    [] f = "address" -> addressChoices
    [] f = "payment" -> paymentChoices
    [] f = "options" -> generalOptions

\* the choice list the family's inline component renders
Choices(f) ==
  CASE f = "product" -> productChoices.products
    [] f = "address" -> addressChoices.addresses
    [] f = "payment" -> paymentChoices.payments
    [] f = "options" -> generalOptions.options

\* the confirmation each select handler logs for the chosen object
ConfirmText(f, c) ==
  CASE f = "product" -> <<"Selected: ", c.product_name>>
    [] f = "address" -> <<"Selected address: ", c.name, " - ", c.address>>
    [] f = "payment" -> <<"Selected payment: ", c.method>>
    [] f = "options" -> <<"Selected: ", c.label>>

\* what the operator can type into the free-text input: an answer after a blank,
\* and a blank alone
Inputs == {<<" ", "y">>, <<" ">>}

\* `disabled={selectedIndex !== null}` of the select buttons
SelectEnabled(f) == selectedIndex[f] = NoSelection

\* the POST /agent/input body, with the confirmation the handler holds in its closure
Request(f, sid, data, confirm) ==
  [family |-> f, session_id |-> sid, input_data |-> data, confirm |-> confirm, copy |-> 1]

\* request r told apart from the equal requests already awaiting their response
Sent(r) ==
  [r EXCEPT !.copy = CHOOSE k \in 1..(Cardinality(inflight) + 1) :
                       /\ [r EXCEPT !.copy = k] \notin inflight
                       /\ \A j \in 1..(k - 1) : [r EXCEPT !.copy = j] \in inflight]

\* a submit handler that shows the run as busy while the answer is on its way
HitlSubmitBusy(input) ==
  /\ mounted
  /\ hitlData.isOpen
  /\ IF Trim(input) = <<>>
     THEN UNCHANGED <<inflight, submits, isRunning>>
     ELSE /\ submits < MaxSubmits
          /\ submits' = submits + 1
          /\ isRunning' = TRUE
          /\ inflight' = inflight \cup {Sent(Request("hitl", hitlData.sessionId, input, <<>>))}
  /\ UNCHANGED <<outlived, mounted, activeLoops, diagnostics, lastResume, logs, batchStatus, Prompts,
                 selectedIndex, pc, wire, framesSent, sent, dispatched, aligned>>

\* a submit handler that sends whatever the field holds
HitlSubmitUntrimmed(input) ==
  /\ mounted
  /\ hitlData.isOpen
  /\ submits < MaxSubmits
  /\ submits' = submits + 1
  /\ inflight' = inflight \cup {Sent(Request("hitl", hitlData.sessionId, input, <<>>))}
  /\ UNCHANGED <<outlived, mounted, activeLoops, diagnostics, lastResume, logs, isRunning, batchStatus, Prompts,
                 selectedIndex, pc, wire, framesSent, sent, dispatched, aligned>>

\* InlineInput.handleSubmit, then handleHitlSubmit up to its fetch
HitlSubmit(input) ==
  /\ mounted
  /\ hitlData.isOpen
  /\ IF Trim(input) = <<>>
     THEN UNCHANGED <<inflight, submits>>
     ELSE /\ submits < MaxSubmits
          /\ submits' = submits + 1
          /\ inflight' = inflight \cup {Sent(Request("hitl", hitlData.sessionId, input, <<>>))}
  /\ UNCHANGED <<outlived, mounted, activeLoops, diagnostics, lastResume, logs, isRunning, batchStatus, Prompts, selectedIndex, pc, wire,
                 framesSent, sent, dispatched, aligned>>

\* a select handler that sends the 1-based position of the choice
SelectOneBased(f, i) ==
  /\ mounted
  /\ f \in ChoiceFamilies
  /\ Slot(f).isOpen
  /\ i \in 0..(Len(Choices(f)) - 1)
  /\ SelectEnabled(f)
  /\ submits < MaxSubmits
  /\ submits' = submits + 1
  /\ selectedIndex' = [selectedIndex EXCEPT ![f] = i]
  /\ inflight' = inflight \cup
       {Sent(Request(f, Slot(f).sessionId, <<ToString(i + 1)>>,
                     ConfirmText(f, Choices(f)[i + 1])))}
  /\ UNCHANGED <<outlived, mounted, activeLoops, diagnostics, lastResume, logs, isRunning, batchStatus, Prompts,
                 pc, wire, framesSent, sent, dispatched, aligned>>

\* Inline*Choices.handleSelect on the button of the choice with 0-based index i, then
\* the family's select handler up to its fetch
Select(f, i) ==
  /\ mounted
  /\ f \in ChoiceFamilies
  /\ Slot(f).isOpen
  /\ i \in 0..(Len(Choices(f)) - 1)
  /\ SelectEnabled(f)
  /\ submits < MaxSubmits
  /\ submits' = submits + 1
  /\ selectedIndex' = [selectedIndex EXCEPT ![f] = i]
  /\ inflight' = inflight \cup
       {Sent(Request(f, Slot(f).sessionId, <<ToString(i)>>, ConfirmText(f, Choices(f)[i + 1])))}
  /\ UNCHANGED <<outlived, mounted, activeLoops, diagnostics, lastResume, logs, isRunning, batchStatus, Prompts, pc, wire, framesSent, sent,
                 dispatched, aligned>>

\* how a resume request can end: a success response, a response that is not ok, a
\* response body with status "error", or fetch rejecting
Outcomes == {"ok", "notOk", "statusError", "rejected"}

\* a success handler that dismisses every prompt once the operator has answered one
HitlSubmitOkDismissAll(st, r) ==
  [st EXCEPT !.hitlData.isOpen = FALSE,
             !.productChoices.isOpen = FALSE,
             !.addressChoices.isOpen = FALSE,
             !.paymentChoices.isOpen = FALSE,
             !.generalOptions.isOpen = FALSE]

\* handleHitlSubmit after a successful response
HitlSubmitOk(st, r) == [st EXCEPT !.hitlData.isOpen = FALSE]

\* handleProductSelect after a successful response
ProductSelectOk(st, r) ==
  [st EXCEPT !.productChoices.isOpen = FALSE,
             !.logs = AppendLog(@, Entry("text", r.confirm))]

\* handleAddressSelect after a successful response
AddressSelectOk(st, r) ==
  [st EXCEPT !.addressChoices.isOpen = FALSE,
             !.logs = AppendLog(@, Entry("text", r.confirm))]

\* handlePaymentSelect after a successful response
PaymentSelectOk(st, r) ==
  [st EXCEPT !.paymentChoices.isOpen = FALSE,
             !.logs = AppendLog(@, Entry("text", r.confirm))]

\* handleOptionSelect after a successful response
OptionSelectOk(st, r) ==
  [st EXCEPT !.generalOptions.isOpen = FALSE,
             !.logs = AppendLog(@, Entry("text", r.confirm))]

\* a catch block that also dismisses the free-text prompt
SubmitFailedCloses(st, r, outcome) ==
  [st EXCEPT !.hitlData.isOpen = FALSE,
             !.logs = AppendLog(@, Entry("error",
               <<IF r.family = "hitl" THEN "Failed to submit input: "
                 ELSE "Failed to submit selection: ", ErrorMessage>>))]

\* the catch block of the five handlers
SubmitFailed(st, r, outcome) ==
  [st EXCEPT !.logs = AppendLog(@, Entry("error",
     <<IF r.family = "hitl" THEN "Failed to submit input: "
       ELSE "Failed to submit selection: ", ErrorMessage>>))]

\* the rest of a handler once its request r ends with outcome
Resumed(st, r, outcome) ==
  IF outcome # "ok" THEN SubmitFailed(st, r, outcome)
  ELSE CASE r.family = "hitl" -> HitlSubmitOk(st, r)
         [] r.family = "product" -> ProductSelectOk(st, r)
         [] r.family = "address" -> AddressSelectOk(st, r)
         [] r.family = "payment" -> PaymentSelectOk(st, r)
         [] r.family = "options" -> OptionSelectOk(st, r)

\* an inline choice component is unmounted when its prompt closes, and a later mount
\* starts from useState(null)
Remount(sel, st) ==
  [f \in ChoiceFamilies |->
     IF (CASE f = "product" -> st.productChoices.isOpen
           [] f = "address" -> st.addressChoices.isOpen
           [] f = "payment" -> st.paymentChoices.isOpen
           [] f = "options" -> st.generalOptions.isOpen)
     THEN sel[f] ELSE NoSelection]

\* a failed submission that also ends the run: the catch block cancels the stream
\* reader and calls setIsRunning(false)
ResumeResponseFatal(r, outcome) ==
  /\ r \in inflight
  /\ outcome \in Outcomes
  /\ inflight' = inflight \ {r}
  /\ outlived' = outlived \ {r}
  /\ LET st == Resumed(View, r, outcome)
     IN /\ logs' = st.logs
        /\ batchStatus' = st.batchStatus
        /\ hitlData' = st.hitlData
        /\ productChoices' = st.productChoices
        /\ addressChoices' = st.addressChoices
        /\ paymentChoices' = st.paymentChoices
        /\ generalOptions' = st.generalOptions
        /\ selectedIndex' = Remount(selectedIndex, st)
  /\ lastResume' = [family |-> r.family, ok |-> (outcome = "ok")]
  /\ isRunning' = (isRunning /\ outcome = "ok")
  /\ pc' = IF outcome # "ok" /\ pc \in {"fetching", "reading"} THEN "failed" ELSE pc
  /\ UNCHANGED <<mounted, activeLoops, diagnostics, wire, framesSent, submits, sent, dispatched, aligned>>

\* the response to resume request r arrives
ResumeResponse(r, outcome) ==
  /\ r \in inflight
  /\ outcome \in Outcomes
  /\ inflight' = inflight \ {r}
  /\ outlived' = outlived \ {r}
  /\ LET st == IF mounted THEN Resumed(View, r, outcome) ELSE View
     IN /\ logs' = st.logs
        /\ batchStatus' = st.batchStatus
        /\ hitlData' = st.hitlData
        /\ productChoices' = st.productChoices
        /\ addressChoices' = st.addressChoices
        /\ paymentChoices' = st.paymentChoices
        /\ generalOptions' = st.generalOptions
        /\ selectedIndex' = Remount(selectedIndex, st)
  /\ lastResume' = [family |-> r.family, ok |-> (outcome = "ok")]
  /\ UNCHANGED <<mounted, activeLoops, diagnostics, isRunning, pc, wire, framesSent, submits, sent, dispatched, aligned>>

\* ------------------------------------------------------------------ the batch panel
\* a summary whose remaining count leaves out the items in progress
BatchSummaryPendingOnly(bs) ==
  [done |-> Len(SelectSeq(bs, LAMBDA item : item.status = "success")),
   failed |-> Len(SelectSeq(bs, LAMBDA item : item.status = "failed")),
   remaining |-> Len(SelectSeq(bs, LAMBDA item : item.status = "pending"))]

\* the done, failed and remaining counts BatchStatusPanel renders for snapshot bs
BatchSummary(bs) ==
  LET successCount == Len(SelectSeq(bs, LAMBDA item : item.status = "success"))
      failedCount == Len(SelectSeq(bs, LAMBDA item : item.status = "failed"))
      pendingCount == Len(SelectSeq(bs, LAMBDA item : item.status = "pending"))
      inProgressCount == Len(SelectSeq(bs, LAMBDA item : item.status = "in_progress"))
  IN [done |-> successCount, failed |-> failedCount,
      remaining |-> pendingCount + inProgressCount]

\* ------------------------------------------------------------------ specifications
\* Reads that end on frame boundaries lose no frame, and a read that does not loses
\* whole frames only, so with every stream of at most MaxFrames frames on offer the
\* prompt and Timeline states of misaligned reads are those of shorter streams.

\* two sessions of the free-text and product families, and a batch snapshot
SessionFrames ==
  {Frame(k) : k \in {"input_1", "input_2", "products_1", "products_2", "status_1"}}

\* one prompt of each of the five families
FamilyFrames ==
  {Frame(k) : k \in {"input_1", "products_1", "addresses_1", "payments_1", "options_1"}}

\* two prompts of each of the five families, snapshots and log lines
DispatchFrames ==
  {Frame(k) : k \in {"log_a", "input_1", "input_2", "products_1", "products_2",
                     "addresses_1", "addresses_2", "payments_1", "payments_2",
                     "options_1", "options_2", "status_1", "status_2"}}

\* log lines, a prompt, and a frame that is not JSON
DecodeFrames ==
  {Frame("log_a"), Frame("log_b"), Frame("products_1"), MalformedFrame}

\* frames with and without the marker, and keep-alives
FramingFrames ==
  {Frame("log_a"), BareFrame("log_b"), KeepAlive, Frame("input_1")}

\* events of no known type, results, and the batch aggregate, with a prompt and a
\* snapshot for them to leave alone
EventFrames ==
  {NullFrame, ScalarFrame, Frame("card"), Frame("other"), Frame("result_json"),
   Frame("result_raw"), Frame("batch_complete"), Frame("input_1"), Frame("status_1")}

Next ==
  \/ RunAgent
  \/ RunBatchAgent
  \/ \E frames \in Streams(SessionFrames, MaxFrames) : FetchResponse(frames, MaxFrames)
  \/ \E n \in FrameCuts : Read(n)
  \/ StreamEnd
  \/ TransportError
  \/ \E input \in Inputs : HitlSubmit(input)
  \/ \E f \in ChoiceFamilies, i \in 0..1 : Select(f, i)
  \/ \E r \in inflight, outcome \in Outcomes : ResumeResponse(r, outcome)

\* the session machine: the stream loop, the operator and the resume responses
Spec == Init /\ [][Next]_vars

NextFamilies ==
  \/ RunAgent
  \/ RunBatchAgent
  \/ \E frames \in Streams(FamilyFrames, MaxFrames) : FetchResponse(frames, MaxFrames)
  \/ \E n \in FrameCuts : Read(n)
  \/ StreamEnd
  \/ TransportError
  \/ \E input \in Inputs : HitlSubmit(input)
  \/ \E f \in ChoiceFamilies, i \in 0..1 : Select(f, i)
  \/ \E r \in inflight, outcome \in Outcomes : ResumeResponse(r, outcome)

\* the session machine with a prompt of every family
SpecFamilies == Init /\ [][NextFamilies]_vars

NextDispatch ==
  \/ RunAgent
  \/ RunBatchAgent
  \/ \E frames \in Streams(DispatchFrames, MaxFrames) : FetchResponse(frames, MaxFrames)
  \/ \E n \in FrameCuts : Read(n)
  \/ StreamEnd
  \/ TransportError

\* the stream loop alone, over every event kind
SpecDispatch == Init /\ [][NextDispatch]_vars

NextDecode ==
  \/ RunAgent
  \/ RunBatchAgent
  \/ \E frames \in Streams(DecodeFrames, MaxDecodeFrames) :
       FetchResponse(frames, MaxDecodeFrames)
  \/ \E n \in AnyCut : Read(n)
  \/ StreamEnd
  \/ TransportError

\* the stream loop alone, with reads of every size
SpecDecode == Init /\ [][NextDecode]_vars

\* a batch: its start, snapshots with every status, and its aggregate
BatchFrames ==
  {Frame("batch_start"), Frame("status_1"), Frame("status_3"), Frame("status_4"),
   Frame("batch_complete")}

NextBatch ==
  \/ RunAgent
  \/ RunBatchAgent
  \/ \E frames \in Streams(BatchFrames, MaxDecodeFrames) :
       FetchResponse(frames, MaxDecodeFrames)
  \/ \E n \in FrameCuts : Read(n)
  \/ StreamEnd
  \/ TransportError

\* the stream loop alone, over the events of a batch
SpecBatch == Init /\ [][NextBatch]_vars

\* the snapshots the remote executor sends for a batch of two items and for a batch
\* of one item, in the order of their progress
ProgressA == <<"a_pp", "a_ip", "a_sp", "a_sf">>
ProgressB == <<"b_p", "b_s">>

\* the strictly increasing sequences of len positions among 1..m
Increasing(m, len) == {s \in [1..len -> 1..m] : \A i \in 1..(len - 1) : s[i] < s[i + 1]}

\* the streams of at most n frames of a batch run: the batch start, then snapshots of
\* the one batch, the items fixed and their status advancing
BatchRunStreams(n) ==
  {<<>>} \cup
  UNION {{<<Frame("batch_start")>> \o [i \in 1..len |-> Frame(P[s[i]])] :
            s \in Increasing(Len(P), len)} :
         P \in {ProgressA, ProgressB}, len \in 0..(n - 1)}

NextExecutor ==
  \/ RunBatchAgent
  \/ \E frames \in BatchRunStreams(MaxDecodeFrames) : FetchResponse(frames, MaxDecodeFrames)
  \/ \E n \in FrameCuts : Read(n)
  \/ StreamEnd
  \/ TransportError

\* batch runs against the remote executor
SpecExecutor == Init /\ [][NextExecutor]_vars

\* a prompt, a log line and a frame that is not JSON
LoopFrames == {Frame("input_1"), Frame("log_a"), MalformedFrame}

NextLoop ==
  \/ RunAgent
  \/ RunBatchAgent
  \/ \E frames \in Streams(LoopFrames, MaxFrames) : FetchResponse(frames, MaxFrames)
  \/ FetchRejected
  \/ \E n \in FrameCuts : Read(n)
  \/ StreamEnd
  \/ TransportError
  \/ \E input \in Inputs : HitlSubmit(input)
  \/ \E r \in inflight, outcome \in Outcomes : ResumeResponse(r, outcome)

\* the life of the consumption loop: start requests accepted and refused, frames
\* that dispatch and frames that fail to parse, submissions and their outcomes
SpecLoop == Init /\ [][NextLoop]_vars

\* the promise of fetch settles with a response
FetchSettles ==
  \/ \E frames \in Streams(LoopFrames, MaxFrames) : FetchResponse(frames, MaxFrames)
  \/ FetchRejected

\* the promise of reader.read() settles with a chunk
ReadSettles == \E n \in FrameCuts : Read(n)

\* the loop under a transport whose every pending fetch and read completes: once a
\* promise the run function awaits has settled, the event loop runs its continuation
SpecLive ==
  /\ Init
  /\ [][NextLoop]_vars
  /\ WF_vars(FetchSettles)
  /\ WF_vars(ReadSettles)
  /\ WF_vars(StreamEnd)

\* events of a known type without their payload, among a log line and a prompt
PayloadFrames ==
  {Frame("config_bare"), Frame("batch_complete_bare"), Frame("products_bare"),
   Frame("log_a"), Frame("input_1")}

NextPayload ==
  \/ RunAgent
  \/ RunBatchAgent
  \/ \E frames \in Streams(PayloadFrames, MaxDecodeFrames) :
       FetchResponse(frames, MaxDecodeFrames)
  \/ \E n \in FrameCuts : Read(n)
  \/ StreamEnd
  \/ TransportError

\* runs whose stream carries events without a payload
SpecPayload == Init /\ [][NextPayload]_vars

\* a snapshot and one prompt of each family, in the order the remote executor asks
FamilyOrder ==
  <<Frame("status_1"), Frame("input_1"), Frame("products_1"), Frame("addresses_1"),
    Frame("payments_1"), Frame("options_1")>>

\* the streams that ask for the first decisions or for the last ones
FamilyStreams ==
  {SubSeq(FamilyOrder, 1, m) : m \in 0..Len(FamilyOrder)}
    \cup {SubSeq(FamilyOrder, m, Len(FamilyOrder)) : m \in 1..Len(FamilyOrder)}

NextAsking ==
  \/ RunAgent
  \/ RunBatchAgent
  \/ \E frames \in FamilyStreams : FetchResponse(frames, Len(FamilyOrder))
  \/ \E n \in FrameCuts : Read(n)
  \/ StreamEnd
  \/ TransportError
  \/ \E input \in Inputs : HitlSubmit(input)
  \/ Select("payment", 0)
  \/ \E r \in inflight, outcome \in {"ok", "rejected"} : ResumeResponse(r, outcome)

\* runs that ask for up to all five decisions before any is answered
SpecAsking == Init /\ [][NextAsking]_vars

NextFraming ==
  \/ RunAgent
  \/ RunBatchAgent
  \/ \E frames \in Streams(FramingFrames, MaxDecodeFrames) :
       FetchResponse(frames, MaxDecodeFrames)
  \/ \E n \in FrameCuts : Read(n)
  \/ StreamEnd
  \/ TransportError

\* the stream loop alone, over the shapes a frame can take
SpecFraming == Init /\ [][NextFraming]_vars

NextEvents ==
  \/ RunAgent
  \/ RunBatchAgent
  \/ \E frames \in Streams(EventFrames, MaxDecodeFrames) :
       FetchResponse(frames, MaxDecodeFrames)
  \/ \E n \in FrameCuts : Read(n)
  \/ StreamEnd
  \/ TransportError

\* the stream loop alone, over the events the dispatcher ignores or formats
SpecEvents == Init /\ [][NextEvents]_vars

\* ------------------------------------------------------------------ the decoder's claims
IsPrefix(a, b) == Len(a) <= Len(b) /\ SubSeq(b, 1, Len(a)) = a

\* a frame that carries the marker and a JSON body
WellFormed(f) == f.marker /\ Len(f.body) = 3 /\ f.body[1] = "{" /\ f.body[3] = "}"

\* the documents of the well-formed frames of a stream, in stream order
RECURSIVE FrameKeys(_)
FrameKeys(frames) ==
  IF frames = <<>> THEN <<>>
  ELSE (IF WellFormed(Head(frames)) THEN <<Head(frames).body[2]>> ELSE <<>>)
       \o FrameKeys(Tail(frames))

\* the Timeline entries one event produces, dispatched on its own
EmptyView == [logs |-> <<>>, batchStatus |-> <<>>, hitlData |-> hitlData,
              productChoices |-> productChoices, addressChoices |-> addressChoices,
              paymentChoices |-> paymentChoices, generalOptions |-> generalOptions]

EntriesOf(k) == HandleEvent(EmptyView, Documents[k]).st.logs

RECURSIVE TimelineOf(_)
TimelineOf(keys) ==
  IF keys = <<>> THEN <<>> ELSE EntriesOf(Head(keys)) \o TimelineOf(Tail(keys))

\* C1 (as claimed): however a stream of well-formed frames is cut into reads, when
\* the stream has ended the events handed to handleEvent are those of all its frames,
\* in order; no frame is lost.
C1_NoFrameLost ==
  (pc = "completed" /\ \A i \in 1..Len(sent) : WellFormed(sent[i]))
    => dispatched = FrameKeys(sent)

\* C7: when a stream whose reads end on frame boundaries has ended, every well-formed
\* frame before and after a frame that is not JSON has been dispatched, in stream
\* order, and the Timeline holds exactly their entries.
C7_MalformedFrameSkipped ==
  (pc = "completed" /\ aligned)
    => (dispatched = FrameKeys(sent) /\ logs = TimelineOf(FrameKeys(sent)))

\* C7 witness: two log frames around a frame that is not JSON gave two text entries
C7_Witness ==
  /\ pc = "completed"
  /\ aligned
  /\ sent = <<Frame("log_a"), MalformedFrame, Frame("log_b")>>
  /\ diagnostics = 1
  /\ logs = <<Entry("text", <<"a">>), Entry("text", <<"b">>)>>

\* C8: a read in which a frame failed to parse and no event was dispatched appends
\* no entry, changes no prompt and no batch snapshot, and leaves isRunning true.
C8_ParseFailureInvisible ==
  [][(pc = "reading" /\ diagnostics' > diagnostics /\ dispatched' = dispatched)
       => (/\ logs' = logs
           /\ Prompts' = Prompts
           /\ batchStatus' = batchStatus
           /\ isRunning /\ isRunning')]_vars

\* C8 witness: a parse failure was met while a prompt is open and the Timeline is not
\* empty
C8_Witness ==
  /\ pc = "reading"
  /\ diagnostics > 0
  /\ productChoices.isOpen
  /\ logs # <<>>
  /\ isRunning

\* C9: while a run reads its stream, and after the stream ended, the Timeline is
\* exactly the entries of the events decoded so far, each once, in decoding order.
C9_OrderPreserving ==
  pc \in {"reading", "completed"} => logs = TimelineOf(dispatched)

\* C9 witness: three events were decoded, the middle one a prompt, and the Timeline
\* holds their entries in that order
C9_Witness ==
  /\ pc = "completed"
  /\ dispatched = <<"log_a", "products_1", "log_b">>
  /\ logs = <<Entry("text", <<"a">>),
              Entry("text", <<"Found ", "2", " products. Please select one...">>),
              Entry("text", <<"b">>)>>

\* ------------------------------------------------------------------ the prompts' claims
OpeningType(f) ==
  CASE f = "hitl" -> "request_input"
    [] f = "product" -> "product_choices"
    [] f = "address" -> "address_choices"
    [] f = "payment" -> "payment_choices"
    [] f = "options" -> "options"

\* the positions of keys that hold a prompt-opening event of family f
Openings(keys, f) == {i \in 1..Len(keys) : Documents[keys[i]].type = OpeningType(f)}

\* the last prompt-opening event of family f among keys
LastOpening(keys, f) ==
  Documents[keys[CHOOSE i \in Openings(keys, f) : \A j \in Openings(keys, f) : j <= i]]

\* the open prompt that holds exactly event e's session, message and choices
PromptOf(f, e) ==
  CASE f = "hitl" ->
         [isOpen |-> TRUE, question |-> e.content, sessionId |-> e.session_id]
    [] f = "product" ->
         [isOpen |-> TRUE, message |-> e.content.message,
          products |-> e.content.products, sessionId |-> e.session_id]
    [] f = "address" ->
         [isOpen |-> TRUE, message |-> e.content.message,
          addresses |-> e.content.addresses, sessionId |-> e.session_id]
    [] f = "payment" ->
         [isOpen |-> TRUE, message |-> e.content.message,
          payments |-> e.content.payments, sessionId |-> e.session_id]
    [] f = "options" ->
         [isOpen |-> TRUE, message |-> e.content.message,
          options |-> e.content.options,
          optionType |-> IF e.content.option_type = Undefined
                         THEN "general" ELSE e.content.option_type,
          sessionId |-> e.session_id]

\* the events a step of the read loop handed to handleEvent
Dispatched(before, after) == SubSeq(after, Len(before) + 1, Len(after))

\* C2: after a read that dispatched prompt-opening events of a family, whether or
\* not the family's prompt was open before, the family's one slot is open and holds
\* exactly the last such event's sessionId, message and choice list.
C2_PromptReplaced ==
  [][\A f \in Families :
       (pc = "reading" /\ pc' = "reading"
          /\ Openings(Dispatched(dispatched, dispatched'), f) # {})
         => Slot(f)' = PromptOf(f, LastOpening(Dispatched(dispatched, dispatched'), f))]_vars

\* C2 witness: a second generic-options event arrived while the prompt of the first
\* was open (nothing closes a prompt here), and the slot holds the second only
C2_Witness ==
  /\ pc = "reading"
  /\ dispatched = <<"options_1", "options_2">>
  /\ generalOptions = [isOpen |-> TRUE, message |-> "om2", options |-> <<[label |-> "go"]>>,
                       optionType |-> "warning", sessionId |-> "s2"]

\* ------------------------------------------------------------------ the submitter's claims
\* a step that handles the response to a resume request
ResumeStep == inflight' # inflight /\ inflight' \subseteq inflight

\* a step that starts a run
RunStart == ~isRunning /\ isRunning'

\* C3: when a resume submission fails, all five prompts are left as they were,
\* exactly one error entry is appended to the Timeline, and isRunning and the stream
\* loop (its position and its unread input) are unaffected.
C3_FailureKeepsPrompt ==
  [][(ResumeStep /\ ~lastResume'.ok)
       => (/\ Prompts' = Prompts
           /\ Len(logs') = Len(logs) + 1
           /\ IsPrefix(logs, logs')
           /\ logs'[Len(logs')].type = "error"
           /\ UNCHANGED <<isRunning, pc, wire, batchStatus>>)]_vars

\* C3 witness: a payment selection failed while the stream loop was reading; the
\* prompt is still open with its session and the Timeline ends with the error entry
C3_Witness ==
  /\ lastResume.family = "payment"
  /\ ~lastResume.ok
  /\ paymentChoices.isOpen
  /\ paymentChoices.sessionId = "s1"
  /\ pc = "reading"
  /\ isRunning
  /\ logs # <<>>
  /\ logs[Len(logs)] = Entry("error", <<"Failed to submit selection: ", ErrorMessage>>)

\* the operator can answer the open prompt of family f: the free-text input accepts
\* text whenever it is rendered, a choice list only while its buttons are enabled
RetryEnabled(f) == IF f = "hitl" THEN hitlData.isOpen ELSE SelectEnabled(f)

\* C4 (as claimed): while a family's prompt is still open after its submission
\* failed, a submit or select action for that prompt is enabled.
C4_RetryEnabled ==
  \A f \in Families :
    (lastResume.family = f /\ ~lastResume.ok /\ Slot(f).isOpen) => RetryEnabled(f)

\* C5 (as claimed): when a resume submission succeeds, the family's prompt is closed
\* and exactly one confirmatory text entry is appended to the Timeline.
C5_SuccessClosesAndConfirms ==
  [][(ResumeStep /\ lastResume'.ok)
       => (/\ (\A f \in Families : lastResume'.family = f => ~Slot(f)'.isOpen)
           /\ Len(logs') = Len(logs) + 1
           /\ IsPrefix(logs, logs')
           /\ logs'[Len(logs')].type = "text")]_vars

\* ------------------------------------------------------------------ the run's claims
\* C6 (as claimed): right after a run start the Timeline is empty, all five prompts
\* are closed and the batch snapshot is empty.
C6_RunStartClears ==
  [][RunStart
       => (/\ logs' = <<>>
           /\ \A f \in Families : ~Slot(f)'.isOpen
           /\ batchStatus' = <<>>)]_vars

\* C10: every step that is not a run start leaves the Timeline it found as a prefix
\* of the Timeline it leaves.
C10_TimelineAppendOnly == [][~RunStart => IsPrefix(logs, logs')]_vars

\* C10 witness: a submission completed between two entries of the stream loop, and
\* all three entries are in the Timeline in the order they were appended
C10_Witness ==
  /\ pc = "reading"
  /\ logs = <<Entry("text", <<"Found ", "2", " products. Please select one...">>),
              Entry("text", <<"Selected: ", "P2">>),
              Entry("text", <<"Found ", "1", " products. Please select one...">>)>>

\* ------------------------------------------------------------------ the batch tracker's claims
\* the positions of keys that hold a batch_status event
Snapshots(keys) == {i \in 1..Len(keys) : Documents[keys[i]].type = "batch_status"}

\* the last batch_status event among keys
LastSnapshot(keys) ==
  Documents[keys[CHOOSE i \in Snapshots(keys) : \A j \in Snapshots(keys) : j <= i]]

\* C11: after a read that dispatched batch_status events, whatever snapshot was held
\* before, the tracker holds exactly the items of the last such event: the same
\* length and the same values, nothing kept from the previous snapshot.
C11_SnapshotReplaced ==
  [][(pc = "reading" /\ pc' = "reading"
        /\ Snapshots(Dispatched(dispatched, dispatched')) # {})
       => batchStatus' = LastSnapshot(Dispatched(dispatched, dispatched')).content]_vars

\* C11 witness: a snapshot of 1 item was followed by a snapshot of 2 items, and the
\* tracker holds exactly the 2 items of the second
C11_Witness ==
  /\ pc = "reading"
  /\ dispatched = <<"status_1", "status_2">>
  /\ Len(batchStatus) = 2
  /\ batchStatus = <<Item(0, "success"), Item(1, "pending")>>

\* ------------------------------------------------------------------ the failures' claims
\* C12: a step in which the start request or a read throws appends exactly one error
\* entry that carries the transport error's message to the Timeline it found, and
\* leaves the run failed with isRunning false.
C12_TransportErrorSurfaced ==
  [][(pc \in {"fetching", "reading"} /\ pc' = "failed")
       => (/\ logs' = Append(logs, Entry("error", <<"Connection error: ", ErrorMessage>>))
           /\ isRunning
           /\ ~isRunning')]_vars

\* C12 witness: a read threw after an event had been dispatched; the run is failed,
\* isRunning is false and the Timeline ends with the one error entry
C12_Witness ==
  /\ pc = "failed"
  /\ ~isRunning
  /\ dispatched = <<"products_1">>
  /\ logs = <<Entry("text", <<"Found ", "2", " products. Please select one...">>),
              Entry("error", <<"Connection error: ", ErrorMessage>>)>>

\* the sessions the events of the current run have opened
SessionsOfRun == {Documents[dispatched[i]].session_id : i \in 1..Len(dispatched)}

\* the remote executor still waits on session sid: the run that opened it is reading
LiveSession(sid) == pc = "reading" /\ sid \in SessionsOfRun

\* C13: when the submission for a session that the current run has not opened, or
\* whose run has ended, is rejected, the step appends the one submission error entry
\* and leaves the run's state, isRunning, and the stream loop's unread input and
\* decoded events exactly as they were; the run does not become failed.
C13_RejectionNotFatal ==
  [][\A r \in inflight :
       (inflight' = inflight \ {r} /\ ~lastResume'.ok /\ ~LiveSession(r.session_id))
         => (/\ pc' = pc
             /\ isRunning' = isRunning
             /\ wire' = wire
             /\ dispatched' = dispatched
             /\ logs' = Append(logs, Entry("error",
                  <<IF r.family = "hitl" THEN "Failed to submit input: "
                    ELSE "Failed to submit selection: ", ErrorMessage>>)))]_vars

\* C13 witness: the prompt of session s1 was left open by a run that has ended; a
\* second run is reading a stream that has not opened s1, the answer for s1 was
\* rejected, and the run still reads with its input unread
C13_Witness ==
  /\ lastResume = [family |-> "hitl", ok |-> FALSE]
  /\ hitlData.sessionId = "s1"
  /\ pc = "reading"
  /\ isRunning
  /\ sent = <<Frame("input_2")>>
  /\ wire = EncodeStream(sent)
  /\ dispatched = <<>>
  /\ logs = <<Entry("error", <<"Failed to submit input: ", ErrorMessage>>)>>

\* ------------------------------------------------------------------ the framing's claims
\* the event with key k, the JSON null included
EventOf(k) == IF k = "null" THEN JsNull ELSE Documents[k]

\* the events of the frames whose body is a JSON value, marker or not, in stream order
RECURSIVE BodyEvents(_)
BodyEvents(frames) ==
  IF frames = <<>> THEN <<>>
  ELSE (IF JSONParse(Head(frames).body).ok
        THEN <<JSONParse(Head(frames).body).value.key>> ELSE <<>>)
       \o BodyEvents(Tail(frames))

\* the events of the frames that carry the marker and a JSON value
RECURSIVE MarkedEvents(_)
MarkedEvents(frames) ==
  IF frames = <<>> THEN <<>>
  ELSE (IF Head(frames).marker /\ JSONParse(Head(frames).body).ok
        THEN <<JSONParse(Head(frames).body).value.key>> ELSE <<>>)
       \o MarkedEvents(Tail(frames))

\* the number of frames of the stream that are read when w is what is left unread
Unread(w) == CHOOSE i \in 0..Len(sent) : w = EncodeStream(SubSeq(sent, i + 1, Len(sent)))

\* the frames a read that starts and ends on frame boundaries returns
ReadFrames == SubSeq(sent, Unread(wire) + 1, Unread(wire'))

\* the state after handing the events with the given keys to handleEvent, in order
RECURSIVE DispatchAll(_, _)
DispatchAll(st, keys) ==
  IF keys = <<>> THEN st
  ELSE DispatchAll(HandleEvent(st, EventOf(Head(keys))).st, Tail(keys))

\* C14 (as claimed): when a stream whose reads end on frame boundaries has ended,
\* the event of every frame with a JSON body has been dispatched, in stream order,
\* whether or not the frame carries the marker.
C14_MarkerOptional ==
  (pc = "completed" /\ aligned) => dispatched = BodyEvents(sent)

\* C15: a read on frame boundaries that returns a keep-alive frame dispatches the
\* events of the marked frames around it, in order, with their effect and nothing
\* else, and reports no parse failure; a read of keep-alive frames only changes no
\* state at all.
C15_KeepAliveIgnored ==
  [][(pc = "reading" /\ pc' = "reading" /\ aligned /\ aligned'
        /\ \E i \in 1..Len(ReadFrames) : ReadFrames[i] = KeepAlive)
       => (/\ dispatched' = dispatched \o MarkedEvents(ReadFrames)
           /\ View' = DispatchAll(View, MarkedEvents(ReadFrames))
           /\ diagnostics' = diagnostics
           /\ isRunning'
           /\ (\A i \in 1..Len(ReadFrames) : ReadFrames[i] = KeepAlive)
                => (View' = View /\ dispatched' = dispatched))]_vars

\* C15 witness: a keep-alive frame stood between two event frames; both events were
\* dispatched and the Timeline and the prompt hold their effect only
C15_Witness ==
  /\ pc = "completed"
  /\ aligned
  /\ sent = <<Frame("log_a"), KeepAlive, Frame("input_1")>>
  /\ dispatched = <<"log_a", "input_1">>
  /\ diagnostics = 0
  /\ logs = <<Entry("text", <<"a">>)>>
  /\ hitlData = [isOpen |-> TRUE, question |-> "q1", sessionId |-> "s1"]

\* ------------------------------------------------------------------ the dispatcher's claims
\* an event the dispatcher has no branch for: a JSON null, a value that is not an
\* object, an object without type, or a type outside the closed enumeration
Unknown(k) == EventOf(k).json # "object" \/ EventOf(k).type \notin KnownTypes

\* the keys among keys whose event the dispatcher has a branch for, in order
RECURSIVE Known(_)
Known(keys) ==
  IF keys = <<>> THEN <<>>
  ELSE (IF Unknown(Head(keys)) THEN <<>> ELSE <<Head(keys)>>) \o Known(Tail(keys))

\* C16: a read leaves the Timeline, the five prompts and the batch snapshot as the
\* events of known type among those it dispatched leave them, so an event of unknown
\* type or of no type has no effect and the events after it are still dispatched;
\* a read that dispatched such events only changes none of them, isRunning stays
\* true and the run still reads.
C16_UnknownEventIgnored ==
  [][(pc = "reading" /\ pc' = "reading" /\ Dispatched(dispatched, dispatched') # <<>>)
       => (/\ View' = DispatchAll(View, Known(Dispatched(dispatched, dispatched')))
           /\ diagnostics' = diagnostics
           /\ isRunning /\ isRunning'
           /\ Known(Dispatched(dispatched, dispatched')) = <<>>
                => (/\ logs' = logs
                    /\ Prompts' = Prompts
                    /\ batchStatus' = batchStatus))]_vars

\* C16 witness: an event the dispatcher has no branch for was dispatched between a
\* prompt and a result; the prompt is as the first event left it, the Timeline holds
\* the entry of the last event only, and the run still reads
C16_Witness ==
  /\ pc = "reading"
  /\ isRunning
  /\ \E k \in {"null", "other", "card", "scalar"} :
       dispatched = <<"input_1", k, "result_raw">>
  /\ hitlData = [isOpen |-> TRUE, question |-> "q1", sessionId |-> "s1"]
  /\ logs = <<Entry("success", <<"**Result:** ", "not json">>)>>
  /\ batchStatus = <<>>

\* the entry a result event is to give: the structured result with the parsed value
\* when its content is JSON, a success entry with the raw text when it is not
ResultEntry(k) ==
  IF k = "result_json"
  THEN Entry("result-json", <<"product_name: ", Documents["card"].product_name,
                              ", price: ", Documents["card"].price>>)
  ELSE Entry("success", <<"**Result:** ">> \o Documents[k].content)

\* C17: a read that dispatched result events only appends one entry for each, in
\* order: the structured result holding the parsed value for content that is JSON,
\* the success entry with the raw text for content that is not; it reports no
\* failure, isRunning stays true and the run still reads.
C17_ResultParsedOrRaw ==
  [][(pc = "reading" /\ Dispatched(dispatched, dispatched') # <<>>
        /\ \A i \in 1..Len(Dispatched(dispatched, dispatched')) :
              Dispatched(dispatched, dispatched')[i] \in {"result_json", "result_raw"})
       => (/\ logs' = logs \o [i \in 1..Len(Dispatched(dispatched, dispatched')) |->
                                ResultEntry(Dispatched(dispatched, dispatched')[i])]
           /\ diagnostics' = diagnostics
           /\ pc' = "reading"
           /\ isRunning /\ isRunning')]_vars

\* C17 witness: a result with JSON content and a result with other content were
\* dispatched; the Timeline holds the structured result, then the raw success entry
C17_Witness ==
  /\ pc = "reading"
  /\ isRunning
  /\ dispatched = <<"result_json", "result_raw">>
  /\ diagnostics = 0
  /\ logs = <<Entry("result-json", <<"product_name: ", "X", ", price: ", "$9">>),
              Entry("success", <<"**Result:** ", "not json">>)>>

\* C18: a read that dispatched batch_complete events only appends exactly one
\* batch-complete entry for each, whose text shows the event's success, total and
\* failed counts, each in its place and unchanged.
C18_AggregateReproduced ==
  [][(pc = "reading" /\ Dispatched(dispatched, dispatched') # <<>>
        /\ \A i \in 1..Len(Dispatched(dispatched, dispatched')) :
              EventOf(Dispatched(dispatched, dispatched')[i]).type = "batch_complete")
       => logs' = logs \o
            [i \in 1..Len(Dispatched(dispatched, dispatched')) |->
               LET c == Documents[Dispatched(dispatched, dispatched')[i]].content
               IN Entry("batch-complete",
                    <<"Batch completed: ", ToString(c.success), "/", ToString(c.total),
                      " succeeded, ", ToString(c.failed), " failed">>)]]_vars

\* C18 witness: the event with counts success 3, failed 1, total 4 gave the one
\* entry "Batch completed: 3/4 succeeded, 1 failed"
C18_Witness ==
  /\ dispatched = <<"batch_complete">>
  /\ Documents["batch_complete"].content.success = 3
  /\ Documents["batch_complete"].content.failed = 1
  /\ Documents["batch_complete"].content.total = 4
  /\ logs = <<Entry("batch-complete",
                <<"Batch completed: ", "3", "/", "4", " succeeded, ", "1", " failed">>)>>

\* ------------------------------------------------------------------ replay
\* the state a page load starts from: empty Timeline, no snapshot, every prompt closed
ClearedView ==
  [logs |-> <<>>, batchStatus |-> <<>>,
   hitlData |-> [isOpen |-> FALSE, question |-> "", sessionId |-> ""],
   productChoices |-> [isOpen |-> FALSE, message |-> "", products |-> <<>>, sessionId |-> ""],
   addressChoices |-> [isOpen |-> FALSE, message |-> "", addresses |-> <<>>, sessionId |-> ""],
   paymentChoices |-> [isOpen |-> FALSE, message |-> "", payments |-> <<>>, sessionId |-> ""],
   generalOptions |-> [isOpen |-> FALSE, message |-> "", options |-> <<>>,
                       optionType |-> "general", sessionId |-> ""]]

\* the prompt of family f in state st
SlotIn(st, f) ==
  CASE f = "hitl" -> st.hitlData
    [] f = "product" -> st.productChoices
    [] f = "address" -> st.addressChoices
    [] f = "payment" -> st.paymentChoices
    [] f = "options" -> st.generalOptions

\* one processing of the byte stream of this run from the cleared state: the whole
\* stream returned by a single read
Replayed == ProcessChunk(ClearedView, EncodeStream(sent))

\* C19 (as claimed): when a run has consumed its byte stream, the events it decoded,
\* its Timeline, every prompt the stream opens and the snapshot the stream sets are
\* those of any other processing of the same bytes from the cleared state, here the
\* one that gets the bytes in a single read.
C19_ReplayDeterministic ==
  pc = "completed"
    => (/\ dispatched = Replayed.events
        /\ logs = Replayed.st.logs
        /\ \A f \in Families : SlotIn(Replayed.st, f).isOpen => Slot(f) = SlotIn(Replayed.st, f)
        /\ Replayed.st.batchStatus # <<>> => batchStatus = Replayed.st.batchStatus)

\* ------------------------------------------------------------------ the single reader
\* C20: at any time at most one call of runAgent or runBatchAgent is between its
\* start and its return, so at most one loop reads a stream; while one is, no run
\* can be started.
C20_SingleReader ==
  /\ activeLoops <= 1
  /\ pc \in {"fetching", "reading"} => (activeLoops = 1 /\ isRunning)
  /\ activeLoops = 1 => (~ENABLED RunAgent /\ ~ENABLED RunBatchAgent)

\* C20 witness: a second run reads its stream after the first run has ended; it is
\* the only loop and the run button is disabled
C20_Witness ==
  /\ pc = "reading"
  /\ activeLoops = 1
  /\ wire # <<>>
  /\ framesSent > Len(sent)
  /\ ~ENABLED RunAgent
  /\ ~ENABLED RunBatchAgent

\* ------------------------------------------------------------------ awaiting input
\* some prompt awaits the operator
AnyOpen == \E f \in Families : Slot(f).isOpen

\* the stream loop takes its next chunk
ReadNext == \E n \in FrameCuts : Read(n)

\* C21: a read on frame boundaries that finds a prompt open, or opens one, leaves
\* isRunning true and dispatches and applies every event of the frames it returns,
\* those after a prompt-opening event included; and while a prompt is open and
\* input is unread, the loop can take its next chunk.
C21_PromptDoesNotPause ==
  [][/\ (pc = "reading" /\ wire # <<>> /\ AnyOpen) => ENABLED ReadNext
     /\ (pc = "reading" /\ pc' = "reading" /\ aligned /\ aligned' /\ wire' # wire
           /\ (AnyOpen \/ AnyOpen'))
          => (/\ isRunning /\ isRunning'
              /\ dispatched' = dispatched \o MarkedEvents(ReadFrames)
              /\ View' = DispatchAll(View, MarkedEvents(ReadFrames)))]_vars

\* C21 witness: a log event arrived after the event that opened the free-text
\* prompt; it is in the Timeline, the prompt is still open and isRunning is true
C21_Witness ==
  /\ pc = "reading"
  /\ isRunning
  /\ dispatched = <<"input_1", "log_a">>
  /\ hitlData = [isOpen |-> TRUE, question |-> "q1", sessionId |-> "s1"]
  /\ logs = <<Entry("text", <<"a">>)>>

\* ------------------------------------------------------------------ the end of a run
\* C22: the step in which the stream reaches end-of-input sets isRunning false and
\* appends nothing to the Timeline; neither that step nor a transport failure
\* changes a prompt; and a step after which an open prompt is closed is the
\* successful completion of a submission of its family or a run start.
C22_EndKeepsPrompts ==
  [][/\ (pc = "reading" /\ pc' = "completed")
          => (~isRunning' /\ logs' = logs /\ Prompts' = Prompts)
     /\ (pc # "failed" /\ pc' = "failed") => Prompts' = Prompts
     /\ \A f \in Families :
          (Slot(f).isOpen /\ ~Slot(f)'.isOpen)
            => \/ (ResumeStep /\ lastResume'.ok /\ lastResume'.family = f)
               \/ RunStart]_vars

\* C22 witness: the stream ended while the free-text prompt was open; isRunning is
\* false, the Timeline has no error entry and the prompt is still open
C22_Witness ==
  /\ pc = "completed"
  /\ ~isRunning
  /\ dispatched = <<"products_1", "input_1">>
  /\ hitlData = [isOpen |-> TRUE, question |-> "q1", sessionId |-> "s1"]
  /\ productChoices.isOpen
  /\ logs = <<Entry("text", <<"Found ", "2", " products. Please select one...">>)>>

\* ------------------------------------------------------------------ the resume requests
\* the decimal numeral of a small natural number
Decimal(i) == <<"0", "1", "2", "3", "4", "5", "6", "7", "8", "9">>[i + 1]

\* C23: a step that sends a resume request sends it for a family whose prompt is
\* open, keyed by that prompt's sessionId; its input_data is a text the operator
\* typed, blanks included, for the free-text family, and the decimal numeral of the
\* 0-based index of the button pressed for a choice family.
C23_RequestCarriesAnswer ==
  [][\A r \in inflight' \ inflight :
       /\ Slot(r.family).isOpen
       /\ r.session_id = Slot(r.family).sessionId
       /\ r.family = "hitl" => (r.input_data \in Inputs /\ Trim(r.input_data) # <<>>)
       /\ r.family \in ChoiceFamilies
            => (/\ selectedIndex[r.family] = NoSelection
                /\ selectedIndex'[r.family] \in 0..(Len(Choices(r.family)) - 1)
                /\ r.input_data = <<Decimal(selectedIndex'[r.family])>>)]_vars

\* C23 witness: the second product and a free-text answer were submitted for
\* session s1; the requests carry "1" and the text as typed
C23_Witness ==
  /\ selectedIndex["product"] = 1
  /\ \E r \in inflight :
       r.family = "product" /\ r.session_id = "s1" /\ r.input_data = <<"1">>
  /\ \E r \in inflight :
       r.family = "hitl" /\ r.session_id = "s1" /\ r.input_data = <<" ", "y">>

\* C24 (as claimed): at most one resume request of each family awaits its response.
C24_OneInFlightPerFamily ==
  \A f \in Families : Cardinality({r \in inflight : r.family = f}) <= 1

\* C25 (as claimed): while a resume request awaits its response, a read on frame
\* boundaries dispatches and applies every event of the frames it returns; and the
\* step that completes a request leaves the prompts of the other families and the
\* batch snapshot as they were and appends exactly one entry to the Timeline it
\* found.
C25_SubmissionIndependent ==
  [][/\ (pc = "reading" /\ pc' = "reading" /\ inflight # {} /\ aligned /\ aligned'
           /\ wire' # wire)
          => (/\ dispatched' = dispatched \o MarkedEvents(ReadFrames)
              /\ View' = DispatchAll(View, MarkedEvents(ReadFrames)))
     /\ \A r \in inflight :
          inflight' = inflight \ {r}
            => (/\ \A g \in Families \ {r.family} : Slot(g)' = Slot(g)
                /\ batchStatus' = batchStatus
                /\ IsPrefix(logs, logs')
                /\ Len(logs') = Len(logs) + 1)]_vars

\* C26 (as claimed): the completion of a request sent for a session other than the
\* one of the prompt its family has open leaves that prompt open.
C26_ClosedByOwnSession ==
  [][\A r \in inflight :
       (/\ inflight' = inflight \ {r}
        /\ Slot(r.family).isOpen
        /\ Slot(r.family).sessionId # r.session_id)
         => Slot(r.family)'.isOpen]_vars

\* ------------------------------------------------------------------ the writers
\* a step of the read loop that handed events to handleEvent
DispatchStep == pc = "reading" /\ Len(dispatched') > Len(dispatched)

\* a step in which the start request or a read throws
FailStep == pc # "failed" /\ pc' = "failed"

\* C27 (as claimed): a step that changes the Timeline, a prompt or the batch
\* snapshot is a step that dispatched a decoded event.
C27_DispatcherOnlyWriter ==
  [][(logs' # logs \/ Prompts' # Prompts \/ batchStatus' # batchStatus)
       => DispatchStep]_vars

\* C27 (amended): the batch snapshot is written by dispatching an event, and
\* cleared by a run start; a prompt is written by dispatching an event, and closed,
\* nothing else of it changed, by the successful completion of a submission of its
\* family; the Timeline is written by dispatching an event, by the completion of a
\* submission, by a run start and by a transport failure.
C27_Writers ==
  [][/\ batchStatus' # batchStatus => (DispatchStep \/ (RunStart /\ batchStatus' = <<>>))
     /\ \A f \in Families :
          Slot(f)' # Slot(f)
            => \/ DispatchStep
               \/ /\ ResumeStep
                  /\ lastResume' = [family |-> f, ok |-> TRUE]
                  /\ Slot(f)' = [Slot(f) EXCEPT !.isOpen = FALSE]
     /\ logs' # logs => (DispatchStep \/ ResumeStep \/ RunStart \/ FailStep)]_vars

\* C27 witness: the completion of a product selection, not the dispatcher, closed
\* the product prompt and appended the last entry of the Timeline
C27_Witness ==
  /\ lastResume = [family |-> "product", ok |-> TRUE]
  /\ ~productChoices.isOpen
  /\ productChoices.sessionId = "s1"
  /\ dispatched = <<"products_1">>
  /\ logs = <<Entry("text", <<"Found ", "2", " products. Please select one...">>),
              Entry("text", <<"Selected: ", "P1">>)>>

\* ------------------------------------------------------------------ opening a prompt
\* the informational entry the prompt-opening event e of choice family f is to give
InfoEntry(f, e) ==
  CASE f = "product" ->
         Entry("text", <<"Found ", Decimal(Len(e.content.products)),
                         " products. Please select one...">>)
    [] f = "address" ->
         Entry("text", <<"Found ", Decimal(Len(e.content.addresses)),
                         " delivery addresses. Please select one...">>)
    [] f = "payment" -> Entry("text", <<"Available payment methods. Please select one...">>)
    [] f = "options" -> Entry("text", <<e.content.message>>)

\* C28: a read that dispatched one event, a prompt-opening event, leaves its
\* family's prompt open with the event's message, choice list and session_id and
\* the other prompts as they were; for request_input the Timeline is unchanged, for
\* the four choice events exactly one informational text entry is appended to it.
C28_PromptOpenedWithEntry ==
  [][\A f \in Families :
       (/\ pc = "reading"
        /\ Len(Dispatched(dispatched, dispatched')) = 1
        /\ EventOf(Dispatched(dispatched, dispatched')[1]).type = OpeningType(f))
         => LET e == EventOf(Dispatched(dispatched, dispatched')[1])
            IN /\ Slot(f)' = PromptOf(f, e)
               /\ \A g \in Families \ {f} : Slot(g)' = Slot(g)
               /\ f = "hitl" => logs' = logs
               /\ f \in ChoiceFamilies => logs' = Append(logs, InfoEntry(f, e))]_vars

\* C28 witness: a payment_choices event opened the payment prompt with its message,
\* its two methods and its session, and appended the one informational entry
C28_Witness ==
  /\ pc = "reading"
  /\ dispatched = <<"payments_2">>
  /\ paymentChoices = [isOpen |-> TRUE, message |-> "ym2",
                       payments |-> <<[method |-> "upi"], [method |-> "cod"]>>,
                       sessionId |-> "s2"]
  /\ logs = <<Entry("text", <<"Available payment methods. Please select one...">>)>>

\* ------------------------------------------------------------------ the batch panel's claims
\* the positions of keys that hold a batch_start event
Starts(keys) == {i \in 1..Len(keys) : EventOf(keys[i]).type = "batch_start"}

\* C29 (as claimed): while the events of the run hold a batch_start with no
\* batch_status after it, the batch snapshot is empty.
C29_EmptyAfterBatchStart ==
  (\E i \in Starts(dispatched) : \A j \in Snapshots(dispatched) : j < i)
    => batchStatus = <<>>

\* the number of items of the snapshot whose status is in the set s
CountOf(s) == Cardinality({i \in 1..Len(batchStatus) : batchStatus[i].status \in s})

\* C30: in every state the counts the panel renders are the numbers of items of the
\* current snapshot with status success, failed, and pending or in_progress, and
\* they sum to the snapshot's length when every status is one of those four.
C30_CountsFromSnapshot ==
  /\ BatchSummary(batchStatus) =
       [done |-> CountOf({"success"}), failed |-> CountOf({"failed"}),
        remaining |-> CountOf({"pending", "in_progress"})]
  /\ (\A i \in 1..Len(batchStatus) :
        batchStatus[i].status \in {"success", "failed", "pending", "in_progress"})
       => BatchSummary(batchStatus).done + BatchSummary(batchStatus).failed
            + BatchSummary(batchStatus).remaining = Len(batchStatus)

\* C30 witness: a snapshot of one failed, one in_progress and one success item
\* replaced a snapshot of one pending item; the panel shows 1 done, 1 failed,
\* 1 remaining
C30_Witness ==
  /\ dispatched = <<"status_1", "status_3">>
  /\ Len(batchStatus) = 3
  /\ BatchSummary(batchStatus) = [done |-> 1, failed |-> 1, remaining |-> 1]

\* ------------------------------------------------------------------ the batch of a run
\* snapshots a and b are of the same batch: as many items, each with the same
\* index, url, quantity and color
SameBatch(a, b) ==
  /\ Len(a) = Len(b)
  /\ \A i \in 1..Len(a) :
       /\ a[i].index = b[i].index
       /\ a[i].product_url = b[i].product_url
       /\ a[i].quantity = b[i].quantity
       /\ a[i].color = b[i].color

Rejected == sent = <<Rejection>>

\* C32: a run whose start request the remote executor refused ends with isRunning
\* false and an error entry in the Timeline.
C32_RejectionSurfaced ==
  (Rejected /\ pc \in {"completed", "failed"})
    => (~isRunning /\ \E i \in 1..Len(logs) : logs[i].type = "error")

\* ------------------------------------------------------------------ the end of a run
\* C33: when every pending fetch and read completes (with a chunk, the end of input or
\* a transport error), a run that is running is eventually not running; and at any
\* time isRunning is true only while the run function awaits a fetch or a read.
C33_RunEnds ==
  /\ isRunning ~> ~isRunning
  /\ [](isRunning => pc \in {"fetching", "reading"})

\* C33 witness: a stream of frames was read to its end and the run is no longer running
C33_Witness ==
  /\ pc = "completed"
  /\ ~isRunning
  /\ Len(sent) >= 1
  /\ wire = <<>>
  /\ Len(dispatched) + diagnostics = Len(sent)

\* ------------------------------------------------------------------ isRunning and the loop
\* the run function is between its start and its exit
LoopActive == activeLoops = 1 /\ pc \in {"fetching", "reading"}

\* C34: isRunning is true exactly while a consumption loop is active: every step ends
\* with isRunning true if and only if one loop is active; a step that dispatches
\* events, meets a parse failure, sends a submission or handles its outcome while
\* the loop is active leaves isRunning true; and a step that sets isRunning false is
\* the exit of the loop.
C34_RunningWhileLoop ==
  [][/\ isRunning' <=> LoopActive'
     /\ (RunStart => (pc' = "fetching" /\ activeLoops' = activeLoops + 1))
     /\ (isRunning /\ (dispatched' # dispatched \/ diagnostics' # diagnostics
                          \/ inflight' # inflight))
          => isRunning'
     /\ (isRunning /\ ~isRunning')
          => (LoopActive /\ pc' \in {"completed", "failed"}
                /\ activeLoops' = activeLoops - 1)]_vars

\* C34 witness: the loop is active and isRunning is true after an event was
\* dispatched, a frame failed to parse and a submission was refused
C34_Witness ==
  /\ isRunning
  /\ LoopActive
  /\ dispatched = <<"input_1">>
  /\ diagnostics = 1
  /\ lastResume = [family |-> "hitl", ok |-> FALSE]

\* ------------------------------------------------------------------ frames cut by a read
\* the number of characters of the stream before frame i, and up to the end of its
\* body and of its delimiter
FrameStart(i) == Len(EncodeStream(SubSeq(sent, 1, i - 1)))
BodyEnd(i) == FrameStart(i + 1) - Len(Delimiter)
FrameEnd(i) == FrameStart(i + 1)

\* the number of characters of the stream read so far, given what is left unread
Offset(w) == Len(EncodeStream(sent)) - Len(w)

\* the frames of the stream that lie between positions lo and hi, the delimiter
\* included (whole) or not (body)
FramesWithin(lo, hi, whole) ==
  LET idx == SelectSeq([i \in 1..Len(sent) |-> i],
                       LAMBDA i : /\ lo <= FrameStart(i)
                                  /\ (IF whole THEN FrameEnd(i) ELSE BodyEnd(i)) <= hi)
  IN [j \in 1..Len(idx) |-> sent[idx[j]]]

\* C35 (as claimed): a read, wherever it starts and ends, dispatches in order the
\* frames that lie whole within it, and nothing of a frame that a read boundary cut
\* (a frame of which only the delimiter is cut may be dispatched or not); the
\* Timeline gets the entries of the dispatched events only, and the loop goes on.
C35_CutFrameDropped ==
  [][(pc = "reading" /\ wire' # wire /\ ~FailStep)
       => (/\ IsPrefix(FrameKeys(FramesWithin(Offset(wire), Offset(wire'), TRUE)),
                       Dispatched(dispatched, dispatched'))
           /\ IsPrefix(Dispatched(dispatched, dispatched'),
                       FrameKeys(FramesWithin(Offset(wire), Offset(wire'), FALSE)))
           /\ logs' = logs \o TimelineOf(Dispatched(dispatched, dispatched'))
           /\ pc' = "reading")]_vars

\* ------------------------------------------------------------------ events without a payload
\* the keys of the events of a known type that came without a content
BareKeys == {k \in DocumentKeys : MissingContent(Documents[k]) /\ Documents[k].type \in KnownTypes}

\* C36 (as claimed): a read on frame boundaries that is handed an event of a known
\* type without its payload, or that follows one in the run, leaves the application
\* as a parse failure would: the loop is still reading, isRunning is true, the view
\* is there, and every event of the read was handed to handleEvent and those that
\* have their payload were applied, in order.
C36_MissingPayloadContained ==
  [][(pc = "reading" /\ aligned' /\ wire' # wire /\ ~FailStep
        /\ \E i \in 1..Len(dispatched') : dispatched'[i] \in BareKeys)
       => (/\ pc' = "reading"
           /\ isRunning'
           /\ mounted'
           /\ dispatched' = dispatched \o FrameKeys(ReadFrames)
           /\ View' = DispatchAll(View, FrameKeys(ReadFrames)))]_vars

\* ------------------------------------------------------------------ the families side by side
\* C37: a read leaves the prompt of every family of which it dispatched no
\* prompt-opening event as it was, and the batch snapshot too unless it dispatched a
\* batch_status; a step that completes a submission leaves the prompts of the other
\* four families and the batch snapshot as they were.
C37_FamiliesIndependent ==
  [][/\ (pc = "reading" /\ wire' # wire /\ ~FailStep)
          => (/\ \A f \in Families :
                   Openings(Dispatched(dispatched, dispatched'), f) = {}
                     => Slot(f)' = Slot(f)
              /\ Snapshots(Dispatched(dispatched, dispatched')) = {}
                   => batchStatus' = batchStatus)
     /\ ResumeStep
          => (/\ \A f \in Families \ {lastResume'.family} : Slot(f)' = Slot(f)
              /\ batchStatus' = batchStatus)]_vars

\* C37 witness: the five prompts are open at once, beside a snapshot, after the
\* operator's payment choice was refused
C37_Witness ==
  /\ \A f \in Families : Slot(f).isOpen
  /\ batchStatus # <<>>
  /\ lastResume = [family |-> "payment", ok |-> FALSE]

\* ------------------------------------------------------------------ the Timeline of a run
\* C38 (as claimed): the completion of a request that was sent before the current run
\* started leaves the Timeline of the current run as it was.
C38_TimelineOfCurrentRun ==
  [][\A r \in outlived :
       (inflight' = inflight \ {r} /\ pc \in {"fetching", "reading"})
         => logs' = logs]_vars

\* ------------------------------------------------------------------ blank answers
\* what the operator can type that is empty or only whitespace
BlankInputs == {input \in Inputs : Trim(input) = <<>>}

\* C39: submitting a free-text answer that is empty or only whitespace changes
\* nothing: no resume request is sent, the prompt stays as it is and the Timeline is
\* unchanged; and no request of the free-text family ever carries such an answer.
C39_BlankNotSubmitted ==
  [][/\ \A input \in BlankInputs : HitlSubmit(input) => UNCHANGED vars
     /\ \A r \in inflight' \ inflight : r.family = "hitl" => r.input_data \notin BlankInputs]_vars

\* C39 witness: the free-text prompt is open, the operator can press submit on a
\* blank answer, and after doing so nothing is in flight and nothing was counted
C39_Witness ==
  /\ hitlData.isOpen
  /\ BlankInputs # {}
  /\ \A input \in BlankInputs : ENABLED HitlSubmit(input)
  /\ inflight = {}
  /\ submits = 0
  /\ logs = <<>>

====
